---- MODULE Spec2Model ----
(***************************************************************************)
(* Model of backend/app.py: the filler-removal pipeline                    *)
(*   process_text -> apply_script_correction -> detect_fillers             *)
(*                   (-> simple_regex_fallback) -> reconstruction.         *)
(*                                                                         *)
(* A Python str is a sequence of one-character strings.  A character       *)
(* outside ASCII is written by its code point: "u0905" is DEVANAGARI       *)
(* LETTER A, "u0964" is the DEVANAGARI DANDA.                              *)
(* A Python value that may be None (last_token, last_word) is a sequence   *)
(* of length 0 (None) or 1 (the str).                                      *)
(***************************************************************************)
EXTENDS Naturals, Sequences, FiniteSets, TLC

VARIABLES
    pc,             \* position of the request in process_text / detect_fillers
    rawText,        \* data.get('text', '')                       (line 174)
    lang,           \* data.get('language', 'en-IN')             (line 176)
    action,         \* config.get('action', 'remove')            (line 177)
    text,           \* the local `text` of process_text          (lines 174, 184)
    path,           \* which classifier is active: "none", "primary", "fallback"
    tokens,         \* tokens of the active tokenizer            (lines 74, 45)
    tags,           \* pos_tag's tag of each token               (line 75)
    i,              \* index of the next token of the running for loop
    clean_tokens,   \* lines 78, 41
    fillers,        \* lines 77, 42
    last,           \* last_token (line 81) / last_word (line 46)
    classified,     \* history: is_filler of every token handled so far
    reconstructed,  \* lines 198, 200
    reconMode,      \* history: "detok" (line 198), "join" (line 200), "none"
    response,       \* the JSON body returned
    primaryRuns,    \* history: entries into the try block of detect_fillers
    fallbackRuns,   \* history: calls of simple_regex_fallback
    primaryFailed,  \* history: the except clause of detect_fillers was taken
    fallbackArg     \* history: the argument of the simple_regex_fallback call

vars == <<pc, rawText, lang, action, text, path, tokens, tags, i, clean_tokens,
          fillers, last, classified, reconstructed, reconMode, response,
          primaryRuns, fallbackRuns, primaryFailed, fallbackArg>>

----------------------------------------------------------------------------
(* Bounds of the model *)

MaxTextLen == 4
MaxNormLen == 6
MaxFallbackLen == 5
MaxWords == 4
MaxFairWords == 2

----------------------------------------------------------------------------
(* Python str primitives *)

UpperSeq == <<"A","B","C","D","E","F","G","H","I","J","K","L","M",
              "N","O","P","Q","R","S","T","U","V","W","X","Y","Z">>
LowerSeq == <<"a","b","c","d","e","f","g","h","i","j","k","l","m",
              "n","o","p","q","r","s","t","u","v","w","x","y","z">>

Range(f) == {f[k] : k \in DOMAIN f}

\* Devanagari code points of general category Lo (letters); the vowel signs,
\* virama, nukta and anusvara of the map keys are marks, not letters.
DevanagariLetters ==
    {"u0905","u0906","u0907","u0908","u0909","u090F","u0910","u0913","u0915",
     "u0917","u091C","u091F","u0920","u0921","u0926","u0928","u092A","u092C",
     "u092E","u092F","u0930","u0932","u0935","u0938","u0939"}

WhitespaceChars == {" "}

\* str.lower(), one character
LowerChar(c) ==
    IF c \in Range(UpperSeq)
    THEN LowerSeq[CHOOSE k \in DOMAIN UpperSeq : UpperSeq[k] = c]
    ELSE c

\* str.lower()
StrLower(s) == [k \in 1..Len(s) |-> LowerChar(s[k])]

IsAlphaChar(c) == c \in Range(UpperSeq) \cup Range(LowerSeq) \cup DevanagariLetters

\* str.isalpha(): non-empty and every character a letter
IsAlpha(s) == Len(s) > 0 /\ \A k \in 1..Len(s) : IsAlphaChar(s[k])

RECURSIVE LStrip(_, _)
LStrip(s, chars) ==
    IF s # <<>> /\ Head(s) \in chars THEN LStrip(Tail(s), chars) ELSE s

RECURSIVE RStrip(_, _)
RStrip(s, chars) ==
    IF s # <<>> /\ s[Len(s)] \in chars
    THEN RStrip(SubSeq(s, 1, Len(s) - 1), chars)
    ELSE s

\* str.strip(chars): removes the characters of chars from both ends
Strip(s, chars) == RStrip(LStrip(s, chars), chars)

RECURSIVE SplitFrom(_, _, _)
SplitFrom(s, k, cur) ==
    IF k > Len(s)
    THEN (IF cur = <<>> THEN <<>> ELSE <<cur>>)
    ELSE IF s[k] \in WhitespaceChars
         THEN (IF cur = <<>> THEN <<>> ELSE <<cur>>) \o SplitFrom(s, k + 1, <<>>)
         ELSE SplitFrom(s, k + 1, Append(cur, s[k]))

\* str.split(): the maximal runs of non-whitespace characters
Split(s) == SplitFrom(s, 1, <<>>)

RECURSIVE Join(_, _)
\* sep.join(toks)
Join(toks, sep) ==
    IF toks = <<>> THEN <<>>
    ELSE IF Len(toks) = 1 THEN toks[1]
    ELSE toks[1] \o sep \o Join(Tail(toks), sep)

\* Python truth value of a value that is None or a str
Truthy(opt) == opt # <<>> /\ opt[1] # <<>>

----------------------------------------------------------------------------
(* The NLTK collaborators, on the characters of the model *)

\* The Treebank tokenizer pads every "?" and "!" with spaces; no rule of it
\* touches a letter, a digit or the danda.
TreebankSeparated == {"!", "?"}

RECURSIVE PadSeparated(_)
PadSeparated(s) ==
    IF s = <<>> THEN <<>>
    ELSE IF Head(s) \in TreebankSeparated
         THEN <<" ", Head(s), " ">> \o PadSeparated(Tail(s))
         ELSE <<Head(s)>> \o PadSeparated(Tail(s))

\* word_tokenize(text)
WordTokenize(s) == Split(PadSeparated(s))

\* pos_tag's tag set, as far as the code reads it: 'UH' or anything else
POS_TAGS == {"UH", "NN"}

RECURSIVE DropSpaceBeforeSeparated(_)
DropSpaceBeforeSeparated(s) ==
    IF s = <<>> THEN <<>>
    ELSE IF Len(s) >= 2 /\ s[1] \in WhitespaceChars /\ s[2] \in TreebankSeparated
         THEN DropSpaceBeforeSeparated(Tail(s))
         ELSE <<Head(s)>> \o DropSpaceBeforeSeparated(Tail(s))

\* TreebankWordDetokenizer().detokenize(toks): the space join with the space
\* before "?" and "!" removed, stripped
Detokenize(toks) ==
    Strip(DropSpaceBeforeSeparated(<<" ">> \o Join(toks, <<" ">>) \o <<" ">>),
          WhitespaceChars)

----------------------------------------------------------------------------
(* simple_regex_fallback *)

\* the hardcoded list of line 53
HardcodedFillers ==
    {<<"u","m">>, <<"u","h">>, <<"h","m","m">>, <<"a","h">>, <<"e","r">>}

\* the characters of the strip of line 49
FallbackStripChars == {",", ".", "!", "?"}

\* variant of FallbackKey: the key is stripped but not lowercased
FallbackKeyNoLower(word) == Strip(word, FallbackStripChars)

\* line 49: lower = word.lower().strip(",.!?")
FallbackKey(word) == Strip(StrLower(word), FallbackStripChars)

\* variant of FallbackIsFiller: a token with an empty key counts as a filler
FallbackIsFillerEmptyKey(last_word, word) ==
    \/ FallbackKey(word) \in HardcodedFillers
    \/ FallbackKey(word) = <<>>
    \/ /\ Truthy(last_word)
       /\ last_word[1] = FallbackKey(word)
       /\ IsAlpha(FallbackKey(word))

\* lines 53-58 of one iteration
FallbackIsFiller(last_word, word) ==
    \/ FallbackKey(word) \in HardcodedFillers
    \/ /\ Truthy(last_word)
       /\ last_word[1] = FallbackKey(word)
       /\ IsAlpha(FallbackKey(word))

\* variant of FallbackStep: the key is emitted in place of the surface token
FallbackStepEmitsKey(st, word) ==
    IF FallbackIsFiller(st.last, word)
    THEN [clean_tokens |-> st.clean_tokens,
          fillers |-> Append(st.fillers, FallbackKey(word)),
          last |-> st.last]
    ELSE [clean_tokens |-> Append(st.clean_tokens, FallbackKey(word)),
          fillers |-> st.fillers,
          last |-> <<FallbackKey(word)>>]

\* variant of FallbackStep: last_word advances on a filler too
FallbackStepAdvances(st, word) ==
    IF FallbackIsFiller(st.last, word)
    THEN [clean_tokens |-> st.clean_tokens,
          fillers |-> Append(st.fillers, word),
          last |-> <<FallbackKey(word)>>]
    ELSE [clean_tokens |-> Append(st.clean_tokens, word),
          fillers |-> st.fillers,
          last |-> <<FallbackKey(word)>>]

\* lines 49-64: one iteration of the loop on the state st
FallbackStep(st, word) ==
    IF FallbackIsFiller(st.last, word)
    THEN [clean_tokens |-> st.clean_tokens,
          fillers |-> Append(st.fillers, word),
          last |-> st.last]
    ELSE [clean_tokens |-> Append(st.clean_tokens, word),
          fillers |-> st.fillers,
          last |-> <<FallbackKey(word)>>]

LoopStart == [clean_tokens |-> <<>>, fillers |-> <<>>, last |-> <<>>]

RECURSIVE FallbackLoop(_, _)
FallbackLoop(st, toks) ==
    IF toks = <<>> THEN st
    ELSE FallbackLoop(FallbackStep(st, Head(toks)), Tail(toks))

\* simple_regex_fallback(text), as one function
simple_regex_fallback(s) == FallbackLoop(LoopStart, Split(s))

----------------------------------------------------------------------------
(* detect_fillers, the loop of the try block *)

\* lines 88-93 of one iteration
DetectIsFiller(last_token, word, tag) ==
    \/ tag = "UH"
    \/ /\ Truthy(last_token)
       /\ last_token[1] = StrLower(word)
       /\ IsAlpha(StrLower(word))

\* variant of DetectStep: last_token advances on a filler too
DetectStepAdvances(st, word, tag) ==
    IF DetectIsFiller(st.last, word, tag)
    THEN [clean_tokens |-> st.clean_tokens,
          fillers |-> Append(st.fillers, word),
          last |-> <<StrLower(word)>>]
    ELSE [clean_tokens |-> Append(st.clean_tokens, word),
          fillers |-> st.fillers,
          last |-> <<StrLower(word)>>]

\* variant of DetectStep: last_token advances on alphabetic content only
DetectStepStale(st, word, tag) ==
    IF DetectIsFiller(st.last, word, tag)
    THEN [clean_tokens |-> st.clean_tokens,
          fillers |-> Append(st.fillers, word),
          last |-> st.last]
    ELSE [clean_tokens |-> Append(st.clean_tokens, word),
          fillers |-> st.fillers,
          last |-> IF IsAlpha(StrLower(word)) THEN <<StrLower(word)>> ELSE st.last]

\* lines 84-99: one iteration of the loop on the state st
DetectStep(st, word, tag) ==
    IF DetectIsFiller(st.last, word, tag)
    THEN [clean_tokens |-> st.clean_tokens,
          fillers |-> Append(st.fillers, word),
          last |-> st.last]
    ELSE [clean_tokens |-> Append(st.clean_tokens, word),
          fillers |-> st.fillers,
          last |-> <<StrLower(word)>>]

----------------------------------------------------------------------------
(* apply_script_correction *)

SCRIPT_CORRECTION_MAP ==
    (<<"u0938", "u094D", "u091F", "u0949", "u092A">> :> <<"s", "t", "o", "p">>) @@
    (<<"u0930", "u0941", "u0915", "u094B">> :> <<"s", "t", "o", "p">>) @@
    (<<"u0939", "u0947", "u0932", "u094B">> :> <<"h", "e", "l", "l", "o">>) @@
    (<<"u0939", "u093E", "u092F">> :> <<"h", "i">>) @@
    (<<"u0913", "u0915", "u0947">> :> <<"o", "k">>) @@
    (<<"u0920", "u0940", "u0915">> :> <<"o", "k">>) @@
    (<<"u0939", "u0948", "u0932", "u094B">> :> <<"h", "e", "l", "l", "o">>) @@
    (<<"u0917", "u0941", "u0921", "u092C", "u093E", "u092F">> :> <<"g", "o", "o", "d", "b", "y", "e">>) @@
    (<<"u092C", "u093E", "u092F">> :> <<"b", "y", "e">>) @@
    (<<"u092F", "u0947", "u0938">> :> <<"y", "e", "s">>) @@
    (<<"u0939", "u093E", "u0902">> :> <<"y", "e", "s">>) @@
    (<<"u0928", "u094B">> :> <<"n", "o">>) @@
    (<<"u0928", "u0939", "u0940", "u0902">> :> <<"n", "o">>) @@
    (<<"u0928", "u093E", "u092E">> :> <<"n", "a", "m", "e">>) @@
    (<<"u092E", "u0947", "u0930", "u093E">> :> <<"m", "y">>) @@
    (<<"u092E", "u093E", "u092F">> :> <<"m", "y">>) @@
    (<<"u0928", "u0947", "u092E">> :> <<"n", "a", "m", "e">>) @@
    (<<"u0907", "u091C", "u093C">> :> <<"i", "s">>) @@
    (<<"u0907", "u091C">> :> <<"i", "s">>) @@
    (<<"u0905">> :> <<"a">>) @@
    (<<"u0910">> :> <<"a">>) @@
    (<<"u090F", "u0928">> :> <<"a", "n">>) @@
    (<<"u0926">> :> <<"t", "h", "e">>) @@
    (<<"u0935", "u094D", "u0939", "u093E", "u091F">> :> <<"w", "h", "a", "t">>) @@
    (<<"u0935", "u094D", "u0939", "u0947", "u0928">> :> <<"w", "h", "e", "n">>) @@
    (<<"u0935", "u094D", "u0939", "u0947", "u0930">> :> <<"w", "h", "e", "r", "e">>) @@
    (<<"u0939", "u093E", "u0909">> :> <<"h", "o", "w">>) @@
    (<<"u092F", "u0942">> :> <<"y", "o", "u">>) @@
    (<<"u0906", "u0930">> :> <<"a", "r", "e">>) @@
    (<<"u090F", "u092E">> :> <<"a", "m">>) @@
    (<<"u0906", "u0908">> :> <<"i">>) @@
    (<<"u092A", "u094D", "u0932", "u0947">> :> <<"p", "l", "a", "y">>) @@
    (<<"u092A", "u0949", "u091C", "u093C">> :> <<"p", "a", "u", "s", "e">>) @@
    (<<"u0915", "u0949", "u0932">> :> <<"c", "a", "l", "l">>)

\* the characters of the strip of line 159
ScriptStripChars == {".", ",", "!", "?", "u0964"}

\* variant of ScriptKey: the token is looked up as it is
ScriptKeyNoStrip(token) == token

\* line 159: clean = token.strip(".,!?<danda>")
ScriptKey(token) == Strip(token, ScriptStripChars)

\* lines 159-164: one iteration, on the state [corrected_tokens, normalization_occurred]
CorrectStep(st, token) ==
    IF ScriptKey(token) \in DOMAIN SCRIPT_CORRECTION_MAP
    THEN [corrected_tokens |->
              Append(st.corrected_tokens, SCRIPT_CORRECTION_MAP[ScriptKey(token)]),
          normalization_occurred |-> TRUE]
    ELSE [corrected_tokens |-> Append(st.corrected_tokens, token),
          normalization_occurred |-> st.normalization_occurred]

RECURSIVE CorrectLoop(_, _)
CorrectLoop(st, toks) ==
    IF toks = <<>> THEN st
    ELSE CorrectLoop(CorrectStep(st, Head(toks)), Tail(toks))

\* variant of apply_script_correction: the tokens are rejoined in every case
apply_script_correction_rejoins(s, context_lang) ==
    IF context_lang # "en-IN" THEN s
    ELSE Join(CorrectLoop([corrected_tokens |-> <<>>,
                           normalization_occurred |-> FALSE], Split(s)).corrected_tokens,
              <<" ">>)

\* apply_script_correction(text, context_lang)
apply_script_correction(s, context_lang) ==
    IF context_lang # "en-IN" THEN s
    ELSE LET r == CorrectLoop([corrected_tokens |-> <<>>,
                               normalization_occurred |-> FALSE], Split(s))
         IN  IF r.normalization_occurred
             THEN Join(r.corrected_tokens, <<" ">>)
             ELSE s

----------------------------------------------------------------------------
(* Requests *)

Languages == {"en-IN", "hi-IN"}
Actions == {"remove", "mark", "preserve"}

\* every text of at most n characters of the alphabet
TextsOver(alphabet, n) == UNION {[1..k -> alphabet] : k \in 0..n}

\* the characters of the request texts: of the whole pipeline, of the script
\* correction alone ("u0926" maps to "the"), of the pipeline without NLTK data
PipelineAlphabet == {"a", "A", "!", " ", "u0905"}
NormalizeAlphabet == {"a", "!", " ", "u0905", "u0926", "u0964"}
FallbackAlphabet == {"a", "A", "h", "!", " ", "u0905"}

\* the words of the longer, single-spaced request texts
ClassifyWords == {<<"a">>, <<"A">>, <<"a","h">>, <<"5">>}

TextsWords ==
    {Join(ws, <<" ">>) : ws \in UNION {[1..n -> ClassifyWords] : n \in 0..MaxWords}}

\* "uh hmm test", "the the cat", "5 5 is five", "um I think uh so", "! !",
\* "a! a !a"
ExampleTexts ==
    {<<"u","h"," ","h","m","m"," ","t","e","s","t">>,
     <<"t","h","e"," ","t","h","e"," ","c","a","t">>,
     <<"5"," ","5"," ","i","s"," ","f","i","v","e">>,
     <<"u","m"," ","I"," ","t","h","i","n","k"," ","u","h"," ","s","o">>,
     <<"!"," ","!">>,
     <<"a","!"," ","a"," ","!","a">>}

NoResponse ==
    [kind |-> "none", processed_text |-> <<>>, fillers_detected |-> <<>>,
     original_text |-> <<>>]

InitWith(texts, langs, acts) ==
    /\ pc = "received"
    /\ rawText \in texts
    /\ text = rawText
    /\ lang \in langs
    /\ action \in acts
    /\ path = "none"
    /\ tokens = <<>>
    /\ tags = <<>>
    /\ i = 1
    /\ clean_tokens = <<>>
    /\ fillers = <<>>
    /\ last = <<>>
    /\ classified = <<>>
    /\ reconstructed = <<>>
    /\ reconMode = "none"
    /\ response = NoResponse
    /\ primaryRuns = 0
    /\ fallbackRuns = 0
    /\ primaryFailed = FALSE
    /\ fallbackArg = <<>>

Init == InitWith(TextsOver(PipelineAlphabet, MaxTextLen), Languages, Actions)

\* the default action of line 177, on longer texts
InitNormalize == InitWith(TextsOver(NormalizeAlphabet, MaxNormLen), Languages, {"remove"})

InitFallback == InitWith(TextsOver(FallbackAlphabet, MaxFallbackLen), Languages, {"remove"})

\* the words of the request texts of the fair specification
FairWords == {<<"a">>, <<"a","h">>, <<"!","a">>, <<"u0905">>}

TextsFair ==
    {Join(ws, <<" ">>) : ws \in UNION {[1..n -> FairWords] : n \in 0..MaxFairWords}}

InitFair == InitWith(TextsFair, Languages, Actions)

\* the defaults of lines 176-177, on longer texts
InitClassify == InitWith(TextsWords \cup ExampleTexts, {"en-IN"}, {"remove"})

----------------------------------------------------------------------------
(* process_text *)

request == <<rawText, lang, action>>
loopVars == <<tokens, tags, i, clean_tokens, fillers, last, classified>>
history == <<primaryRuns, fallbackRuns, primaryFailed, fallbackArg>>

\* lines 179-180: `if not text` returns the empty result; its list is keyed
\* 'fillers', not 'fillers_detected', which the kind "empty" stands for
EmptyShortcut ==
    /\ pc = "received"
    /\ text = <<>>
    /\ response' = [kind |-> "empty", processed_text |-> <<>>,
                    fillers_detected |-> <<>>, original_text |-> <<>>]
    /\ pc' = "responded"
    /\ UNCHANGED <<request, text, path, loopVars, reconstructed, reconMode, history>>

\* line 184
Normalize ==
    /\ pc = "received"
    /\ text # <<>>
    /\ text' = apply_script_correction(text, lang)
    /\ pc' = "detect"
    /\ UNCHANGED <<request, path, loopVars, reconstructed, reconMode, response, history>>

\* line 74, word_tokenize returns
PrimaryTokenize ==
    /\ pc = "detect"
    /\ tokens' = WordTokenize(text)
    /\ path' = "primary"
    /\ primaryRuns' = primaryRuns + 1
    /\ pc' = "tag"
    /\ UNCHANGED <<request, text, tags, i, clean_tokens, fillers, last, classified,
                   reconstructed, reconMode, response, fallbackRuns, primaryFailed,
                   fallbackArg>>

\* lines 75-81, pos_tag returns: any tag for any token
PrimaryTag ==
    /\ pc = "tag"
    /\ tags' \in [1..Len(tokens) -> POS_TAGS]
    /\ fillers' = <<>>
    /\ clean_tokens' = <<>>
    /\ last' = <<>>
    /\ i' = 1
    /\ classified' = <<>>
    /\ pc' = "primary_loop"
    /\ UNCHANGED <<request, text, path, tokens, reconstructed, reconMode, response,
                   history>>

\* lines 83-99, one iteration
PrimaryStep ==
    /\ pc = "primary_loop"
    /\ i <= Len(tokens)
    /\ LET st == DetectStep([clean_tokens |-> clean_tokens, fillers |-> fillers,
                             last |-> last], tokens[i], tags[i])
       IN  /\ clean_tokens' = st.clean_tokens
           /\ fillers' = st.fillers
           /\ last' = st.last
           /\ classified' = Append(classified, Len(st.fillers) > Len(fillers))
    /\ i' = i + 1
    /\ UNCHANGED <<pc, request, text, path, tokens, tags, reconstructed, reconMode,
                   response, history>>

\* line 101
PrimaryReturn ==
    /\ pc = "primary_loop"
    /\ i > Len(tokens)
    /\ pc' = "reconstruct"
    /\ UNCHANGED <<request, text, path, loopVars, reconstructed, reconMode, response,
                   history>>

\* variant of PrimaryFail: the exception is not caught in detect_fillers and
\* reaches the except clause of process_text (lines 220-222)
PrimaryFailSurfaces ==
    /\ pc \in {"detect", "tag", "primary_loop"}
    /\ primaryRuns' = IF pc = "detect" THEN primaryRuns + 1 ELSE primaryRuns
    /\ primaryFailed' = TRUE
    /\ response' = [kind |-> "error", processed_text |-> <<>>,
                    fillers_detected |-> <<>>, original_text |-> <<>>]
    /\ pc' = "responded"
    /\ UNCHANGED <<request, text, path, loopVars, reconstructed, reconMode,
                   fallbackRuns, fallbackArg>>

\* lines 103-105 and 41-46: an exception anywhere in the try block (inside
\* word_tokenize, inside pos_tag, in the loop) calls simple_regex_fallback(text)
PrimaryFail ==
    /\ pc \in {"detect", "tag", "primary_loop"}
    /\ primaryRuns' = IF pc = "detect" THEN primaryRuns + 1 ELSE primaryRuns
    /\ primaryFailed' = TRUE
    /\ path' = "fallback"
    /\ fallbackRuns' = fallbackRuns + 1
    /\ fallbackArg' = text
    /\ tokens' = Split(text)
    /\ clean_tokens' = <<>>
    /\ fillers' = <<>>
    /\ last' = <<>>
    /\ i' = 1
    /\ tags' = <<>>
    /\ classified' = <<>>
    /\ pc' = "fallback_loop"
    /\ UNCHANGED <<request, text, reconstructed, reconMode, response>>

\* lines 48-64, one iteration
FallbackLoopStep ==
    /\ pc = "fallback_loop"
    /\ i <= Len(tokens)
    /\ LET st == FallbackStep([clean_tokens |-> clean_tokens, fillers |-> fillers,
                               last |-> last], tokens[i])
       IN  /\ clean_tokens' = st.clean_tokens
           /\ fillers' = st.fillers
           /\ last' = st.last
           /\ classified' = Append(classified, Len(st.fillers) > Len(fillers))
    /\ i' = i + 1
    /\ UNCHANGED <<pc, request, text, path, tokens, tags, reconstructed, reconMode,
                   response, history>>

\* lines 66 and 105
FallbackReturn ==
    /\ pc = "fallback_loop"
    /\ i > Len(tokens)
    /\ pc' = "reconstruct"
    /\ UNCHANGED <<request, text, path, loopVars, reconstructed, reconMode, response,
                   history>>

\* line 200: " ".join(clean_tokens)
SpaceJoin(toks) == Join(toks, <<" ">>)

\* lines 196-198: the detokenizer is importable and joins the clean tokens
ReconstructDetok ==
    /\ pc = "reconstruct"
    /\ reconstructed' = Detokenize(clean_tokens)
    /\ reconMode' = "detok"
    /\ pc' = "respond"
    /\ UNCHANGED <<request, text, path, loopVars, response, history>>

\* lines 199-200: the bare except joins the clean tokens with spaces
ReconstructJoin ==
    /\ pc = "reconstruct"
    /\ reconstructed' = SpaceJoin(clean_tokens)
    /\ reconMode' = "join"
    /\ pc' = "respond"
    /\ UNCHANGED <<request, text, path, loopVars, response, history>>

\* variant of ProcessedText: 'mark' leaves the text as it is
ProcessedTextMarkKeeps(act, recon, txt) ==
    IF act = "remove" THEN recon ELSE txt

\* lines 202-207
ProcessedText(act, recon, txt) ==
    IF act = "remove" THEN recon
    ELSE IF act = "mark" THEN recon
    ELSE txt

\* lines 209-213
BuildResponse(act, recon, txt, fls) ==
    [kind |-> "ok",
     processed_text |-> ProcessedText(act, recon, txt),
     fillers_detected |-> fls,
     original_text |-> txt]

\* lines 202-218
Respond ==
    /\ pc = "respond"
    /\ response' = BuildResponse(action, reconstructed, text, fillers)
    /\ pc' = "responded"
    /\ UNCHANGED <<request, text, path, loopVars, reconstructed, reconMode, history>>

Next ==
    \/ EmptyShortcut
    \/ Normalize
    \/ PrimaryTokenize
    \/ PrimaryTag
    \/ PrimaryStep
    \/ PrimaryReturn
    \/ PrimaryFail
    \/ FallbackLoopStep
    \/ FallbackReturn
    \/ ReconstructDetok
    \/ ReconstructJoin
    \/ Respond

Spec == Init /\ [][Next]_vars

\* the request up to the return of apply_script_correction
NextNormalize ==
    \/ EmptyShortcut
    \/ Normalize

SpecNormalize == InitNormalize /\ [][NextNormalize]_vars

\* the pipeline of a process without the NLTK data: word_tokenize raises
\* LookupError on every request (lines 29-37 log the failed download and go on)
NextFallback ==
    \/ EmptyShortcut
    \/ Normalize
    \/ PrimaryFail
    \/ FallbackLoopStep
    \/ FallbackReturn
    \/ ReconstructDetok
    \/ ReconstructJoin
    \/ Respond

SpecFallback == InitFallback /\ [][NextFallback]_vars

SpecClassify == InitClassify /\ [][Next]_vars

\* a request handler that has started runs to its return
FairSpec == InitFair /\ [][Next]_vars /\ WF_vars(Next)

----------------------------------------------------------------------------
(* Vocabulary of the properties *)

Max(S) == CHOOSE x \in S : \A y \in S : y <= x

RECURSIVE Interleaves(_, _, _)
\* t is an order-preserving merge of c and f
Interleaves(t, c, f) ==
    IF t = <<>> THEN c = <<>> /\ f = <<>>
    ELSE \/ c # <<>> /\ Head(c) = Head(t) /\ Interleaves(Tail(t), Tail(c), f)
         \/ f # <<>> /\ Head(f) = Head(t) /\ Interleaves(Tail(t), c, Tail(f))

RECURSIVE SelectFlag(_, _, _)
\* the tokens whose flag is `flag`, in order
SelectFlag(toks, flags, flag) ==
    IF flags = <<>> THEN <<>>
    ELSE (IF Head(flags) = flag THEN <<Head(toks)>> ELSE <<>>)
         \o SelectFlag(Tail(toks), Tail(flags), flag)

\* a classifier loop is running or has returned
Classifying == pc \in {"primary_loop", "fallback_loop", "reconstruct", "respond", "responded"}
                 /\ path # "none"

\* the classifier loop has returned
ClassifierDone == pc \in {"reconstruct", "respond", "responded"} /\ path # "none"

\* the classifier loop has just returned (line 101, line 66)
Returned == pc = "reconstruct"

\* the index of the last token before j classified content, 0 if none
PrevContent(j) ==
    LET S == {k \in 1..(j - 1) : ~classified[k]}
    IN  IF S = {} THEN 0 ELSE Max(S)

\* the outputs are the classified tokens, selected by their flag
OutputsFollowFlags ==
    /\ Len(classified) = i - 1
    /\ clean_tokens = SelectFlag(tokens, classified, FALSE)
    /\ fillers = SelectFlag(tokens, classified, TRUE)

----------------------------------------------------------------------------
\* C1: on both classification paths every token of the active tokenizer lands
\* in exactly one of clean_tokens and fillers, unaltered and in its original
\* relative order, so the two lengths add up to the number of tokens.
C1_Partition ==
    Classifying =>
        /\ tokens = (IF path = "fallback" THEN Split(text) ELSE WordTokenize(text))
        /\ Len(clean_tokens) + Len(fillers) = i - 1
        /\ Interleaves(SubSeq(tokens, 1, i - 1), clean_tokens, fillers)
        /\ (ClassifierDone => Len(clean_tokens) + Len(fillers) = Len(tokens))

C1_Witness ==
    /\ pc = "responded"
    /\ path = "fallback"
    /\ Len(tokens) = 4
    /\ Len(fillers) = 2
    /\ Len(clean_tokens) = 2

----------------------------------------------------------------------------
(* C2 *)

\* last_content_term before token j, as the claim describes it
LastContentTerm(j) ==
    IF PrevContent(j) = 0 THEN <<>> ELSE <<StrLower(tokens[PrevContent(j)])>>

C2_StepRule ==
    /\ OutputsFollowFlags
    /\ \A j \in 1..(i - 1) :
           classified[j] <=>
               \/ tags[j] = "UH"
               \/ /\ LastContentTerm(j) = <<StrLower(tokens[j])>>
                  /\ IsAlpha(StrLower(tokens[j]))
    /\ last = LastContentTerm(i)

\* s..e is a maximal run of identical alphabetic words none of which is tagged 'UH'
IsRun(s, e) ==
    /\ s <= e
    /\ \A k \in s..e : /\ StrLower(tokens[k]) = StrLower(tokens[s])
                       /\ tags[k] # "UH"
    /\ IsAlpha(StrLower(tokens[s]))
    /\ s = 1 \/ tags[s - 1] = "UH" \/ StrLower(tokens[s - 1]) # StrLower(tokens[s])
    /\ e = Len(tokens) \/ tags[e + 1] = "UH"
         \/ StrLower(tokens[e + 1]) # StrLower(tokens[s])

ContentCount(s, e) == Cardinality({k \in s..e : ~classified[k]})

C2_FirstAndNonAlpha ==
    /\ i > 1 => (classified[1] <=> tags[1] = "UH")
    /\ \A j \in 1..(i - 1) :
           ~IsAlpha(StrLower(tokens[j])) /\ tags[j] # "UH" => ~classified[j]

\* C2 as stated: the step rule of detect_fillers, and as its consequence every
\* run of k identical alphabetic non-interjection words yields one content
\* token and k-1 fillers.
C2_Original ==
    path = "primary" /\ Classifying =>
        /\ C2_StepRule
        /\ C2_FirstAndNonAlpha
        /\ Returned =>
               \A s \in 1..Len(tokens) : \A e \in s..Len(tokens) :
                   IsRun(s, e) => ContentCount(s, e) = 1

\* C2 amended: the step rule of detect_fillers (filler exactly when tagged 'UH'
\* or lowercase-equal to last_content_term and alphabetic; last_content_term
\* advances on content only); the first token is filler only by its tag; a
\* non-alphabetic token is never a repetition filler; and a run of k identical
\* alphabetic non-interjection words yields one content token (its first) and
\* k-1 fillers when last_content_term is not that word where the run starts,
\* and k fillers when it is.
C2_Amended ==
    path = "primary" /\ Classifying =>
        /\ C2_StepRule
        /\ C2_FirstAndNonAlpha
        /\ Returned =>
               \A s \in 1..Len(tokens) : \A e \in s..Len(tokens) :
                   IsRun(s, e) =>
                       IF LastContentTerm(s) = <<StrLower(tokens[s])>>
                       THEN ContentCount(s, e) = 0
                       ELSE /\ ~classified[s]
                            /\ ContentCount(s, e) = 1

C2_Witness ==
    /\ Returned
    /\ path = "primary"
    /\ \E s \in 1..Len(tokens) : \E e \in s..Len(tokens) :
           /\ IsRun(s, e)
           /\ e = s + 1
           /\ ContentCount(s, e) = 1
    /\ \E s \in 1..Len(tokens) : \E e \in s..Len(tokens) :
           /\ IsRun(s, e)
           /\ PrevContent(s) # 0
           /\ ContentCount(s, e) = 0

----------------------------------------------------------------------------
(* C3 *)

C3_Vocabulary ==
    {<<"u","m">>, <<"u","h">>, <<"h","m","m">>, <<"a","h">>, <<"e","r">>}

\* the comparison key of the most recent token before j classified content
PrevContentKey(j) ==
    IF PrevContent(j) = 0 THEN <<>> ELSE <<FallbackKey(tokens[PrevContent(j)])>>

UhHmmTest == <<"u","h"," ","h","m","m"," ","t","e","s","t">>

\* C3: in simple_regex_fallback a whitespace token is filler exactly when its
\* comparison key is one of um, uh, hmm, ah, er, or equals the comparison key
\* of the most recent token classified content and is alphabetic;
\* "uh hmm test" gives fillers [uh, hmm] and content [test].
C3_FallbackRule ==
    path = "fallback" /\ Classifying =>
        /\ tokens = Split(text)
        /\ OutputsFollowFlags
        /\ \A j \in 1..(i - 1) :
               classified[j] <=>
                   \/ FallbackKey(tokens[j]) \in C3_Vocabulary
                   \/ /\ PrevContentKey(j) = <<FallbackKey(tokens[j])>>
                      /\ IsAlpha(FallbackKey(tokens[j]))
        /\ text = UhHmmTest /\ ClassifierDone =>
               /\ fillers = << <<"u","h">>, <<"h","m","m">> >>
               /\ clean_tokens = << <<"t","e","s","t">> >>

\* "a ah a": the second "a" repeats the last content token, not the last token
C3_Witness ==
    /\ Returned
    /\ path = "fallback"
    /\ tokens = << <<"a">>, <<"a","h">>, <<"a">> >>
    /\ classified = <<FALSE, TRUE, TRUE>>

----------------------------------------------------------------------------
(* C10 *)

\* the comparison key of the active path
ActiveKey(word) == IF path = "fallback" THEN FallbackKey(word) ELSE StrLower(word)

\* C10: no two adjacent clean tokens have equal alphabetic comparison keys;
\* no clean token of the primary path is tagged 'UH' and no clean token of the
\* fallback path has a key in the hardcoded vocabulary; at every step the
\* repetition state is None when clean_tokens is empty and otherwise the
\* comparison key of the last clean token.
C10_CleanTokens ==
    Classifying =>
        /\ \A k \in 1..(Len(clean_tokens) - 1) :
               ~ /\ ActiveKey(clean_tokens[k]) = ActiveKey(clean_tokens[k + 1])
                 /\ IsAlpha(ActiveKey(clean_tokens[k]))
        /\ path = "primary" =>
               /\ OutputsFollowFlags
               /\ \A j \in 1..(i - 1) : ~classified[j] => tags[j] # "UH"
        /\ path = "fallback" =>
               \A k \in 1..Len(clean_tokens) :
                   FallbackKey(clean_tokens[k]) \notin C3_Vocabulary
        /\ last = (IF clean_tokens = <<>> THEN <<>>
                   ELSE <<ActiveKey(clean_tokens[Len(clean_tokens)])>>)

\* content, punctuation, the same content again: all three stay clean
C10_Witness ==
    /\ pc = "primary_loop"
    /\ Len(clean_tokens) = 3
    /\ clean_tokens[1] = clean_tokens[3]
    /\ IsAlpha(StrLower(clean_tokens[1]))
    /\ fillers # <<>>

----------------------------------------------------------------------------
(* C4 *)

C4_StripChars == {",", ".", "!", "?"}

\* the key as C4 states it: lowercased, trailing characters stripped
C4_KeyTrailing(word) == RStrip(StrLower(word), C4_StripChars)

\* the key with the characters stripped at both ends
C4_KeyBothEnds(word) == LStrip(RStrip(StrLower(word), C4_StripChars), C4_StripChars)

\* C4 as stated: the fallback's comparison key is the token lowercased with
\* trailing ,.!? stripped, characters at the start staying part of the key;
\* the emitted tokens are the original surface tokens.
C4_Original ==
    path = "fallback" /\ Classifying =>
        /\ OutputsFollowFlags
        /\ Interleaves(SubSeq(Split(text), 1, i - 1), clean_tokens, fillers)
        /\ clean_tokens # <<>> =>
               last = <<C4_KeyTrailing(clean_tokens[Len(clean_tokens)])>>
        /\ \A j \in 1..(i - 1) :
               classified[j] <=>
                   \/ C4_KeyTrailing(tokens[j]) \in C3_Vocabulary
                   \/ /\ PrevContent(j) # 0
                      /\ C4_KeyTrailing(tokens[PrevContent(j)]) = C4_KeyTrailing(tokens[j])
                      /\ IsAlpha(C4_KeyTrailing(tokens[j]))

\* C4 amended: the fallback's comparison key is the token lowercased with the
\* characters ,.!? stripped from both its start and its end; lowercasing and
\* stripping affect only the key, every emitted token is the original surface
\* token.
C4_Amended ==
    path = "fallback" /\ Classifying =>
        /\ OutputsFollowFlags
        /\ Interleaves(SubSeq(Split(text), 1, i - 1), clean_tokens, fillers)
        /\ clean_tokens # <<>> =>
               last = <<C4_KeyBothEnds(clean_tokens[Len(clean_tokens)])>>
        /\ \A j \in 1..(i - 1) :
               classified[j] <=>
                   \/ C4_KeyBothEnds(tokens[j]) \in C3_Vocabulary
                   \/ /\ PrevContent(j) # 0
                      /\ C4_KeyBothEnds(tokens[PrevContent(j)]) = C4_KeyBothEnds(tokens[j])
                      /\ IsAlpha(C4_KeyBothEnds(tokens[j]))

\* "A !a": the surface "!a" is emitted as a filler, its key "a" repeats "A"'s
C4_Witness ==
    /\ Returned
    /\ path = "fallback"
    /\ clean_tokens = << <<"A">> >>
    /\ fillers = << <<"!","a">> >>

----------------------------------------------------------------------------
(* C5, C6 *)

\* some whitespace token of s has its lookup key in the map
SomeKeyInMap(s) ==
    \E k \in 1..Len(Split(s)) : ScriptKey(Split(s)[k]) \in DOMAIN SCRIPT_CORRECTION_MAP

\* line 184 has run
Normalized == pc # "received"

\* C5: apply_script_correction returns its input verbatim, whitespace
\* included, when the context is not 'en-IN' and when no token's lookup key is
\* in SCRIPT_CORRECTION_MAP; whitespace is collapsed only by a substitution.
C5_Verbatim ==
    Normalized =>
        /\ (lang # "en-IN" \/ ~SomeKeyInMap(rawText)) => text = rawText
        /\ text # rawText => lang = "en-IN" /\ SomeKeyInMap(rawText)

\* irregular whitespace survives an 'en-IN' request without a substitution
C5_Witness ==
    /\ Normalized
    /\ lang = "en-IN"
    /\ rawText # Join(Split(rawText), <<" ">>)
    /\ Len(Split(rawText)) = 2
    /\ text = rawText

C6_StripChars == {".", ",", "!", "?", "u0964"}

\* the tokens of s, each replaced by its mapped value when key(token) is a map key
C6_Mapped(s, key(_)) ==
    [k \in 1..Len(Split(s)) |->
        IF key(Split(s)[k]) \in DOMAIN SCRIPT_CORRECTION_MAP
        THEN SCRIPT_CORRECTION_MAP[key(Split(s)[k])]
        ELSE Split(s)[k]]

C6_KeyTrailing(token) == RStrip(token, C6_StripChars)

C6_KeyBothEnds(token) == LStrip(RStrip(token, C6_StripChars), C6_StripChars)

\* C6 as stated: under 'en-IN' the lookup key is the token with trailing
\* punctuation stripped, and a token is replaced by the mapped value exactly
\* when that key is a map key.
C6_Original ==
    Normalized /\ lang = "en-IN" =>
        Split(text) = C6_Mapped(rawText, C6_KeyTrailing)

\* C6 amended: under 'en-IN' the lookup key is the token with the punctuation
\* characters stripped from both its start and its end; a token is replaced by
\* the mapped value, punctuation discarded, exactly when that key is a map
\* key, and is otherwise kept unchanged; a map key inside a longer token whose
\* other characters are not all punctuation at its ends changes nothing.
C6_Amended ==
    Normalized /\ lang = "en-IN" =>
        Split(text) = C6_Mapped(rawText, C6_KeyBothEnds)

\* a token with punctuation at both ends is replaced, one holding the key
\* next to a letter is kept
C6_Witness ==
    /\ Normalized
    /\ lang = "en-IN"
    /\ Split(rawText) = << <<"!", "u0905">>, <<"a", "u0905">> >>
    /\ text = <<"a", " ", "a", "u0905">>

----------------------------------------------------------------------------
(* C7 *)

\* the success response built from the fallback's result on the normalized text
FallbackResponses ==
    LET r == simple_regex_fallback(text)
    IN  {[kind |-> "ok",
          processed_text |-> (IF action = "preserve" THEN text ELSE recon),
          fillers_detected |-> r.fillers,
          original_text |-> text] :
            recon \in {Detokenize(r.clean_tokens), Join(r.clean_tokens, <<" ">>)}}

C7_Safety ==
    /\ primaryRuns <= 1
    /\ fallbackRuns <= 1
    /\ primaryFailed <=> fallbackRuns = 1
    /\ primaryFailed =>
           /\ path = "fallback"
           /\ fallbackArg = text
           /\ text = apply_script_correction(rawText, lang)
           /\ response.kind \in {"none", "ok"}
    /\ pc = "responded" /\ primaryFailed => response \in FallbackResponses
    /\ pc = "responded" /\ ~primaryFailed /\ rawText # <<>> =>
           /\ path = "primary"
           /\ primaryRuns = 1

\* C7: a failure of the primary path is followed by exactly one run of
\* simple_regex_fallback on the same normalized text, whose result is
\* reconstructed and returned as a success response; the primary path is
\* never attempted again, the fallback runs at most once and never after a
\* successful primary path.
C7_FallbackOnce ==
    /\ []C7_Safety
    /\ primaryFailed ~> (pc = "responded" /\ response \in FallbackResponses)

\* the primary path failed and the fallback's fillers were returned
C7_Witness ==
    /\ pc = "responded"
    /\ primaryFailed
    /\ primaryRuns = 1
    /\ fallbackRuns = 1
    /\ response.kind = "ok"
    /\ response.fillers_detected # <<>>
    /\ Len(response.processed_text) > 1

----------------------------------------------------------------------------
(* C8 *)

\* the fillers of the classification that ran, whatever the action
ClassifiedFillers == SelectFlag(tokens, classified, TRUE)

\* the reconstruction of the classification that ran, whatever the action
ClassifiedReconstruction ==
    IF reconMode = "detok"
    THEN Detokenize(SelectFlag(tokens, classified, FALSE))
    ELSE Join(SelectFlag(tokens, classified, FALSE), <<" ">>)

\* C8: in a success response fillers_detected and original_text do not depend
\* on the action; processed_text is the reconstructed text for 'remove', the
\* same reconstructed text for 'mark', and the normalized input verbatim for
\* 'preserve', with the classification still run.
C8_Actions ==
    pc = "responded" /\ response.kind = "ok" =>
        /\ Len(classified) = Len(tokens)
        /\ response.fillers_detected = ClassifiedFillers
        /\ response.original_text = apply_script_correction(rawText, lang)
        /\ action = "remove" => response.processed_text = ClassifiedReconstruction
        /\ action = "mark" => response.processed_text = ClassifiedReconstruction
        /\ action = "preserve" => response.processed_text = response.original_text

C8_Witness ==
    /\ pc = "responded"
    /\ action = "preserve"
    /\ response.fillers_detected # <<>>
    /\ response.processed_text = text
    /\ text # rawText
    /\ text # reconstructed

----------------------------------------------------------------------------
(* C9 *)

\* no token of s is a vocabulary filler and no two adjacent tokens repeat a word
CleanedText(s) ==
    LET toks == Split(s)
    IN  /\ \A k \in 1..Len(toks) : FallbackKey(toks[k]) \notin C3_Vocabulary
        /\ \A k \in 1..(Len(toks) - 1) :
               ~ /\ FallbackKey(toks[k]) = FallbackKey(toks[k + 1])
                 /\ IsAlpha(FallbackKey(toks[k]))

\* the request text is already cleaned for the classifier that ran
AlreadyCleaned ==
    /\ CleanedText(rawText)
    /\ path = "primary" => \A j \in 1..Len(tags) : tags[j] # "UH"

RemoveByFallback(s, context_lang) ==
    IF s = <<>> THEN <<>>
    ELSE SpaceJoin(simple_regex_fallback(apply_script_correction(s, context_lang)).clean_tokens)

====
